---- MODULE Spec2Model ----
(***************************************************************************)
(* Crypto news / market-movers aggregator (web3newBot).                    *)
(*                                                                         *)
(* The repository is five independent entry points that never share a      *)
(* process or a storage directory:                                         *)
(*   main.py                 FastAPI service, snapshot files under DB_DIR  *)
(*   crypto_data_service.py  browser-driven fetch script, files in SAVE_DIR*)
(*   streamlit_app.py        dashboard, files in the working directory     *)
(*   app.py                  headline blog (browser scrape, no files)      *)
(*   telegram_bot.py         chat bot with an in-memory TTL cache          *)
(* One behaviour of this model is one run of one entry point: `prog' is    *)
(* fixed by Init and every action is guarded by it.                        *)
(***************************************************************************)
EXTENDS Integers, Sequences, FiniteSets, TLC

VARIABLES
    prog,     \* the entry point this behaviour runs
    now,      \* wall clock, seconds
    disk,     \* snapshot files of the running entry point, by file name
    thr,      \* main.py: the request threads of the FastAPI thread pool
    started,  \* main.py: the startup hook preload_data has completed
    run,      \* crypto_data_service.py, streamlit_app.py, app.py: the call in progress
    driver,   \* the headless browser session: "none", "open" or "closed"
    memo,     \* app.py: the st.cache_data entry of scrape_news
    cache,    \* telegram_bot.py: SimpleCache.cache, by key
    cmd,      \* telegram_bot.py: the command handler in progress
    task,     \* telegram_bot.py: the fetch coroutines of the handler
    call      \* a single call of one of the pure functions: arguments and result

vars == <<prog, now, disk, thr, started, run, driver, memo, cache, cmd, task, call>>

apiVars == <<thr, started>>
scriptVars == <<run, driver, memo>>
botVars == <<cache, cmd, task>>

----------------------------------------------------------------------------
(* Bounds of the model *)

NThreads == 2      \* request threads that may run concurrently
MaxTime == 600     \* the clock stops here
\* the largest `limit' and `max_sentences' the pure functions are called with
MaxLimit == 3
MaxSentences == 3

\* the instants the clock is observed at: one TTL apart
TickSteps == {300}

\* telegram_bot.py:51  cache = SimpleCache(ttl_seconds=300)
TTL_SECONDS == 300

Progs == {"api", "svc", "dash", "app", "bot"}
Threads == 1..NThreads

----------------------------------------------------------------------------
(* File names and file contents *)

NEWS_FILE == "coindesk_news.joblib"
GAINERS_FILE == "top_gainers_losers.joblib"
FileKeys == {NEWS_FILE, GAINERS_FILE}

Absent == [kind |-> "absent"]      \* os.path.exists(path) is False
Partial == [kind |-> "partial"]    \* opened "wb" and not (yet) fully written

NoPage == [kind |-> "none"]

\* What the CoinDesk front page can hold: its h3 elements in document order.
\* anchor: "none" (no enclosing <a>), "nohref" (<a> without href),
\* otherwise the href text.
H3(text, anchor) == [text |-> text, anchor |-> anchor]

HeadlineA == H3("Bitcoin surge", "/markets/btc")
HeadlineB == H3("Market crash", "none")

Html(h3s) == [kind |-> "html", h3 |-> h3s]
\* A document nested so deeply that BeautifulSoup raises RecursionError.
DeepHtml == [kind |-> "deep"]

Pages == {Html(<<>>), Html(<<HeadlineA, HeadlineB>>), DeepHtml}

\* CoinGecko top_gainers_losers JSON bodies
MarketBodies == {[top_gainers |-> <<"btc">>, top_losers |-> <<"eth">>]}

----------------------------------------------------------------------------
(* Text helpers: Python str and re operations on TLA+ strings *)

StartsWith(s, p) == Len(s) >= Len(p) /\ SubSeq(s, 1, Len(p)) = p

\* Python: `w in text'
Contains(text, w) ==
    \E i \in 1..(Len(text) - Len(w) + 1) : SubSeq(text, i, i + Len(w) - 1) = w

UpperLetters == "ABCDEFGHIJKLMNOPQRSTUVWXYZ"
LowerLetters == "abcdefghijklmnopqrstuvwxyz"
Digits == "0123456789_"

CharAt(s, i) == SubSeq(s, i, i)

LowerChar(c) ==
    IF \E k \in 1..26 : CharAt(UpperLetters, k) = c
    THEN CharAt(LowerLetters, CHOOSE k \in 1..26 : CharAt(UpperLetters, k) = c)
    ELSE c

\* Python: str.lower()
RECURSIVE Lower(_)
Lower(s) == IF Len(s) = 0 THEN "" ELSE LowerChar(CharAt(s, 1)) \o Lower(SubSeq(s, 2, Len(s)))

IsSpace(c) == c = " "
\* regex \w
IsWordChar(c) == Contains(UpperLetters, c) \/ Contains(LowerLetters, c) \/ Contains(Digits, c)
\* regex [.!?]
IsTerminal(c) == c \in {".", "!", "?"}

\* Python: str.strip() (spaces are the only whitespace of the modelled texts)
RECURSIVE LStrip(_)
LStrip(s) == IF Len(s) > 0 /\ IsSpace(CharAt(s, 1)) THEN LStrip(SubSeq(s, 2, Len(s))) ELSE s
RECURSIVE RStrip(_)
RStrip(s) == IF Len(s) > 0 /\ IsSpace(CharAt(s, Len(s))) THEN RStrip(SubSeq(s, 1, Len(s) - 1)) ELSE s
Strip(s) == LStrip(RStrip(s))

----------------------------------------------------------------------------
(* main.py:55-66 and crypto_data_service.py:28-41: classify_sentiment *)

BULLISH == <<"surge", "rally", "soar", "gain", "bull", "increase", "rise", "positive",
             "record", "high", "jump", "growth", "breakout", "buy", "invest", "pump">>
BEARISH == <<"drop", "fall", "crash", "bear", "decline", "loss", "down", "negative",
             "sell", "dump", "fear", "panic", "collapse", "recession", "dip">>

\* sum(w in text for w in words)
KeywordScore(text, words) == Cardinality({k \in 1..Len(words) : Contains(text, words[k])})

BULLISH_LABEL == "Bullish"
BEARISH_LABEL == "Bearish"
NEUTRAL_LABEL == "Neutral"

\* a classifier that breaks ties in favour of Bullish
classify_sentiment_ties_bullish(headline) ==
    LET text == Lower(headline)
    IN  IF KeywordScore(text, BULLISH) >= KeywordScore(text, BEARISH) THEN BULLISH_LABEL
        ELSE BEARISH_LABEL


classify_sentiment(headline) ==
    LET text == Lower(headline)
        bull_score == KeywordScore(text, BULLISH)
        bear_score == KeywordScore(text, BEARISH)
    IN  IF bull_score > bear_score THEN BULLISH_LABEL
        ELSE IF bear_score > bull_score THEN BEARISH_LABEL
        ELSE NEUTRAL_LABEL

----------------------------------------------------------------------------
(* main.py:69-79: summarize_text *)

\* re.split(r'(?<=[.!?]) +', text): cut at every run of spaces that follows a
\* terminal mark; `cur' is the piece being built, `i' the scan position.
RECURSIVE SplitFrom(_, _, _)
SplitFrom(text, i, cur) ==
    IF i > Len(text) THEN <<cur>>
    ELSE IF IsSpace(CharAt(text, i)) /\ i > 1 /\ IsTerminal(CharAt(text, i - 1))
    THEN LET j == CHOOSE j \in i..Len(text) :
                     /\ \A k \in i..j : IsSpace(CharAt(text, k))
                     /\ (j = Len(text) \/ ~IsSpace(CharAt(text, j + 1)))
         IN  <<cur>> \o SplitFrom(text, j + 1, "")
    ELSE SplitFrom(text, i + 1, cur \o CharAt(text, i))

SplitSentences(text) == SplitFrom(text, 1, "")

\* re.findall(r'\w+', s): the maximal runs of word characters, in order
RECURSIVE WordsFrom(_, _, _)
WordsFrom(s, i, cur) ==
    IF i > Len(s) THEN (IF cur = "" THEN <<>> ELSE <<cur>>)
    ELSE IF IsWordChar(CharAt(s, i)) THEN WordsFrom(s, i + 1, cur \o CharAt(s, i))
    ELSE (IF cur = "" THEN <<>> ELSE <<cur>>) \o WordsFrom(s, i + 1, "")

FindWords(s) == WordsFrom(s, 1, "")

\* Counter(words)[w]
Freq(words, w) == Cardinality({k \in 1..Len(words) : words[k] = w})

RECURSIVE SumSeq(_)
SumSeq(s) == IF Len(s) = 0 THEN 0 ELSE Head(s) + SumSeq(Tail(s))

\* the sort key of main.py:77
SentenceScore(sentence, words) ==
    LET ws == FindWords(sentence)
    IN  SumSeq([k \in 1..Len(ws) |-> Freq(words, Lower(ws[k]))])

\* sorted(sentences, key=..., reverse=True): stable, equal keys keep their order.
\* Position of sentence i in the ranking.
RankOf(scores, i) ==
    1 + Cardinality({j \in 1..Len(scores) :
                        scores[j] > scores[i] \/ (scores[j] = scores[i] /\ j < i)})

\* a summarizer that forgets to rank: the sentences stay in document order
Ranked_document_order(sentences, scores) == sentences

Ranked(sentences, scores) ==
    [r \in 1..Len(sentences) |->
        sentences[CHOOSE i \in 1..Len(sentences) : RankOf(scores, i) = r]]

RECURSIVE JoinSpace(_)
JoinSpace(parts) ==
    IF Len(parts) = 0 THEN ""
    ELSE IF Len(parts) = 1 THEN parts[1]
    ELSE parts[1] \o " " \o JoinSpace(Tail(parts))

Take(s, n) == SubSeq(s, 1, IF Len(s) < n THEN Len(s) ELSE n)

summarize_text(text, max_sentences) ==
    LET sentences == SplitSentences(text)
    IN  IF Len(sentences) <= max_sentences THEN text
        ELSE LET words == FindWords(Lower(text))
                 scores == [i \in 1..Len(sentences) |-> SentenceScore(sentences[i], words)]
                 ranked == Ranked(sentences, scores)
             IN  Strip(JoinSpace(Take(ranked, max_sentences)))

DEFAULT_MAX_SENTENCES == 2

----------------------------------------------------------------------------
(* main.py:106-143: extraction and payload of fetch_and_save_coindesk_news *)

COINDESK_URL == "https://www.coindesk.com/"
NO_LINK == "No link found"

\* h.find_parent("a") and its href (main.py:120-121); "" stands for None
HrefOf(h) == IF h.anchor \in {"none", "nohref"} THEN "" ELSE h.anchor

\* main.py:122
main_full_link(h) ==
    LET href == HrefOf(h)
    IN  IF href # "" /\ StartsWith(href, "/") THEN COINDESK_URL \o href ELSE href

\* main.py:119-132, one iteration of the loop
main_article(h) ==
    LET title == Strip(h.text)
    IN  [title |-> title,
         link |-> IF main_full_link(h) = "" THEN NO_LINK ELSE main_full_link(h),
         sentiment |-> classify_sentiment(title),
         summary |-> summarize_text(title, DEFAULT_MAX_SENTENCES)]

\* main.py:115-132
main_articles(html, limit) ==
    LET hs == Take(html.h3, limit)
    IN  [i \in 1..Len(hs) |-> main_article(hs[i])]

\* main.py:134-138
main_payload(html, limit, ts) ==
    [kind |-> "data", timestamp |-> ts, source |-> "CoinDesk",
     articles |-> main_articles(html, limit)]

MAIN_LIMIT == 30

\* main.py:96-99
gainers_payload(body, ts) == [kind |-> "data", timestamp |-> ts, data |-> body]

\* BeautifulSoup(res.text, "html.parser") returns a tree
Parses(html) == html.kind = "html"

----------------------------------------------------------------------------
(* main.py: the request threads *)

\* A thread at pc "idle" holds the request it served last and the response it
\* sent (req = "none" before its first request).
\* seen: the stored file as the request found it; n_called / g_called: the request
\* has entered fetch_and_save_coindesk_news / fetch_and_save_gainers_losers;
\* n_outcome: how fetch_and_save_coindesk_news ended; headlines: the number of h3
\* elements of the page it got (-1: no page).
IdleThread ==
    [req |-> "none", pc |-> "idle", payload |-> Absent, resp |-> "none",
     body |-> Absent, seen |-> "none", n_called |-> FALSE, g_called |-> FALSE,
     n_outcome |-> "none", headlines |-> -1]

\* The single call in progress of the script entry points; at pc "idle" it holds
\* the call that ended last: result is "none" (None / [] returned), "value"
\* (value returned, in `value') or "raised" (an exception left the function);
\* shown: what the article loop of app.py has put on the page so far.
IdleRun ==
    [op |-> "none", pc |-> "idle", result |-> "none", value |-> Absent,
     before |-> Absent, payload |-> Absent, stage |-> "none", market |-> "none",
     seen |-> "none", headlines |-> -1, pressed |-> FALSE, shown |-> <<>>]

\* telegram_bot.py: the cache keys, an empty slot, the handler at rest (holding
\* the command it served last; fresh / age: the entry of its key as the command
\* found it; prev: the command served before it) and a fetch coroutine that is not running (attempt: requests of
\* fetch_with_retry already answered with a retry; last: the latest answer)
BotKeys == {"news", "gainers"}
TaskIds == {1, 2}
NoEntry == [kind |-> "none"]
NoData == [kind |-> "none"]
IdleCmd == [name |-> "none", pc |-> "idle", reply |-> "none", fresh |-> FALSE, requests |-> 0,
            age |-> -1, prev |-> "none"]
OffTask == [key |-> "none", pc |-> "off", attempt |-> 0, data |-> NoData, last |-> "none"]

\* uvicorn runs the startup hook to completion before it serves a request
StartupThread == [IdleThread EXCEPT !.req = "startup", !.pc = "g_get", !.g_called = TRUE]

Api(t) == prog = "api" /\ t \in Threads
At(t, label) == thr[t].pc = label
SetThr(t, rec) == thr' = [thr EXCEPT ![t] = rec]
WriteFile(f, content) == disk' = [disk EXCEPT ![f] = content]

\* The stamp a stored file was written with
StampOf(stored) == IF "timestamp" \in DOMAIN stored THEN stored.timestamp ELSE stored.saved_at
\* observer for the properties: the stored snapshot is older than ttl at time t
IsStale(stored, t, ttl) == t - StampOf(stored) > ttl

\* How a reader finds a stored file: "absent", "partial", "fresh" or "stale"
\* (against the five minutes the bot, the caller of the API, promises its users)
Seen(stored, t) ==
    IF stored.kind # "data" THEN stored.kind
    ELSE IF IsStale(stored, t, TTL_SECONDS) THEN "stale" ELSE "fresh"

\* a refresh that skips the pipeline while the stored snapshot is fresh
refresh_data_fetches_if_stale(stored, t) ==
    ~(stored.kind = "data" /\ ~IsStale(stored, t, TTL_SECONDS))

\* main.py:225-228: refresh_data calls both fetch functions, whatever is stored
refresh_data_fetches(stored, t) == TRUE

\* main.py:224-227  GET /refresh: enters fetch_and_save_gainers_losers
refresh_data(t) ==
    /\ Api(t) /\ started /\ At(t, "idle")
    /\ SetThr(t, IF refresh_data_fetches(disk[NEWS_FILE], now)
                 THEN [IdleThread EXCEPT !.req = "refresh", !.pc = "g_get",
                                         !.seen = Seen(disk[NEWS_FILE], now),
                                         !.g_called = TRUE]
                 ELSE [IdleThread EXCEPT !.req = "refresh", !.resp = "200",
                                         !.seen = Seen(disk[NEWS_FILE], now)])
    /\ UNCHANGED <<prog, call, now, disk, started, scriptVars, botVars>>

\* main.py:227-228, 239-240: fetch_and_save_gainers_losers has returned (it
\* swallows every exception), the caller goes on to fetch_and_save_coindesk_news
AfterGainers(rec) == [rec EXCEPT !.pc = "n_get", !.payload = Absent, !.n_called = TRUE]

\* main.py:93-100  requests.get answers (or raises), the payload is stamped
\* and joblib.dump opens the target for writing, which truncates it
gainers_get(t) ==
    /\ Api(t) /\ At(t, "g_get")
    /\ \/ /\ SetThr(t, AfterGainers(thr[t]))                 \* lines 93-95 or open raise
          /\ UNCHANGED disk
       \/ \E body \in MarketBodies :
            /\ SetThr(t, [thr[t] EXCEPT !.pc = "g_write",
                                        !.payload = gainers_payload(body, now)])
            /\ WriteFile(GAINERS_FILE, Partial)
    /\ UNCHANGED <<prog, call, now, started, scriptVars, botVars>>

\* main.py:100  joblib.dump writes the pickle and closes the file
gainers_dump_write(t) ==
    /\ Api(t) /\ At(t, "g_write")
    /\ \/ WriteFile(GAINERS_FILE, thr[t].payload)
       \/ UNCHANGED disk                                     \* write raised
    /\ SetThr(t, AfterGainers(thr[t]))
    /\ UNCHANGED <<prog, call, now, started, scriptVars, botVars>>

\* fetch_and_save_coindesk_news has returned None to its caller:
\* main.py:211 (GET /coindesk), main.py:229 (GET /refresh), main.py:240 (startup)
AfterNews(rec, outcome) ==
    LET r == [rec EXCEPT !.n_outcome = outcome, !.payload = Absent]
    IN  CASE rec.req = "coindesk" -> [r EXCEPT !.pc = "load"]
          [] rec.req = "refresh" -> [r EXCEPT !.pc = "idle", !.resp = "200"]
          [] rec.req = "startup" -> [r EXCEPT !.pc = "idle"]

\* a refresh that truncates the target before it knows the fetch succeeded
news_after_failure_truncated(stored) == Partial

\* main.py:142-143: the except branch only prints; the file a failed fetch or
\* extraction leaves is the file it found
news_after_failure(stored) == stored

\* main.py:111-143  requests.get answers (or raises), the page is parsed, the
\* articles are extracted, the payload is stamped and joblib.dump opens the
\* target for writing, which truncates it
news_get(t) ==
    /\ Api(t) /\ At(t, "n_get")
    /\ \/ /\ SetThr(t, AfterNews(thr[t], "fetch_failed"))    \* lines 112-113 raise
          /\ WriteFile(NEWS_FILE, news_after_failure(disk[NEWS_FILE]))
       \/ \E html \in Pages :
            IF ~Parses(html)
            THEN /\ SetThr(t, AfterNews(thr[t], "extract_failed"))
                 /\ WriteFile(NEWS_FILE, news_after_failure(disk[NEWS_FILE]))
            ELSE \/ /\ SetThr(t, [thr[t] EXCEPT
                                    !.pc = "n_write", !.headlines = Len(html.h3),
                                    !.payload = main_payload(html, MAIN_LIMIT, now)])
                    /\ WriteFile(NEWS_FILE, Partial)
                 \/ /\ SetThr(t, [AfterNews(thr[t], "save_failed") EXCEPT
                                    !.headlines = Len(html.h3)])     \* open raised
                    /\ UNCHANGED disk
    /\ UNCHANGED <<prog, call, now, started, scriptVars, botVars>>

\* main.py:140  joblib.dump writes the pickle and closes the file
news_dump_write(t) ==
    /\ Api(t) /\ At(t, "n_write")
    /\ \/ /\ WriteFile(NEWS_FILE, thr[t].payload)
          /\ SetThr(t, AfterNews(thr[t], "saved"))
       \/ /\ UNCHANGED disk                                  \* write raised
          /\ SetThr(t, AfterNews(thr[t], "save_failed"))
    /\ UNCHANGED <<prog, call, now, started, scriptVars, botVars>>

\* main.py:208  `if not os.path.exists(path)': does GET /coindesk refresh first?
coindesk_needs_refresh(stored) == stored = Absent

\* main.py:204-209  GET /coindesk up to the existence check
get_coindesk_news(t) ==
    /\ Api(t) /\ started /\ At(t, "idle")
    /\ SetThr(t, IF coindesk_needs_refresh(disk[NEWS_FILE])
                 THEN [IdleThread EXCEPT !.req = "coindesk", !.pc = "n_get",
                                         !.seen = Seen(disk[NEWS_FILE], now),
                                         !.n_called = TRUE]
                 ELSE [IdleThread EXCEPT !.req = "coindesk", !.pc = "load",
                                         !.seen = Seen(disk[NEWS_FILE], now)])
    /\ UNCHANGED <<prog, call, now, disk, started, scriptVars, botVars>>

\* main.py:214-216  summaries added to the articles that lack one
fill_summaries(data) ==
    [data EXCEPT !.articles =
        [i \in 1..Len(data.articles) |->
            IF data.articles[i].summary = ""
            THEN [data.articles[i] EXCEPT
                    !.summary = summarize_text(data.articles[i].title, DEFAULT_MAX_SENTENCES)]
            ELSE data.articles[i]]]

\* main.py:211-218  joblib.load(path) outside any try: a missing or a
\* half-written file raises out of the handler (HTTP 500)
coindesk_load(t) ==
    /\ Api(t) /\ At(t, "load")
    /\ SetThr(t, IF disk[NEWS_FILE].kind = "data"
                 THEN [thr[t] EXCEPT !.pc = "idle", !.resp = "200",
                                     !.body = fill_summaries(disk[NEWS_FILE])]
                 ELSE [thr[t] EXCEPT !.pc = "idle", !.resp = "500",
                                     !.body = disk[NEWS_FILE]])
    /\ UNCHANGED <<prog, call, now, disk, started, scriptVars, botVars>>

\* main.py:44-52  load_joblib's answer for a stored file
load_joblib(stored) ==
    CASE stored = Absent -> "404"
      [] stored = Partial -> "500"
      [] OTHER -> "200"

\* main.py:157-164  GET /gainers-losers
get_gainers_losers(t) ==
    /\ Api(t) /\ started /\ At(t, "idle")
    /\ SetThr(t, [IdleThread EXCEPT !.req = "gainers_losers",
                                    !.seen = Seen(disk[GAINERS_FILE], now),
                                    !.resp = load_joblib(disk[GAINERS_FILE]),
                                    !.body = disk[GAINERS_FILE]])
    /\ UNCHANGED <<prog, call, now, disk, started, scriptVars, botVars>>

\* main.py:235-240  preload_data has returned: the service starts serving
startup_complete ==
    /\ prog = "api" /\ ~started
    /\ thr[1].req = "startup" /\ At(1, "idle")
    /\ started' = TRUE
    /\ UNCHANGED <<prog, call, now, disk, thr, scriptVars, botVars>>

ApiNext ==
    \/ startup_complete
    \/ \E t \in Threads :
        \/ refresh_data(t) \/ get_coindesk_news(t) \/ get_gainers_losers(t)
        \/ gainers_get(t) \/ gainers_dump_write(t)
        \/ news_get(t) \/ news_dump_write(t)
        \/ coindesk_load(t)

----------------------------------------------------------------------------
(* crypto_data_service.py *)

SVC_LIMIT == 30

\* crypto_data_service.py:29-32
SVC_BULLISH == <<"surge", "rally", "soar", "gain", "bull", "increase", "rise", "positive",
                 "record", "high", "jump", "growth", "breakout", "buy", "invest", "pump">>
SVC_BEARISH == <<"drop", "fall", "crash", "bear", "decline", "loss", "down", "negative",
                 "sell", "dump", "fear", "panic", "collapse", "recession", "dip">>

\* crypto_data_service.py:28-41
svc_classify_sentiment(headline) ==
    LET text == Lower(headline)
        bull_score == KeywordScore(text, SVC_BULLISH)
        bear_score == KeywordScore(text, SVC_BEARISH)
    IN  IF bull_score > bear_score THEN BULLISH_LABEL
        ELSE IF bear_score > bull_score THEN BEARISH_LABEL
        ELSE NEUTRAL_LABEL

\* crypto_data_service.py:119-128, one iteration of the loop
svc_article(h) ==
    LET title == Strip(h.text)
    IN  [title |-> title,
         link |-> IF main_full_link(h) = "" THEN NO_LINK ELSE main_full_link(h),
         sentiment |-> svc_classify_sentiment(title)]

\* crypto_data_service.py:115-134
svc_payload(html, limit, ts) ==
    LET hs == Take(html.h3, limit)
    IN  [kind |-> "data", timestamp |-> ts, source |-> "CoinDesk",
         articles |-> [i \in 1..Len(hs) |-> svc_article(hs[i])]]

\* EC.presence_of_all_elements_located((By.TAG_NAME, "h3")) within the 10 s wait
H3Present(html) == html.kind = "deep" \/ (html.kind = "html" /\ Len(html.h3) > 0)
\* the number of h3 elements of a page that parses
H3Count(html) == IF html.kind = "html" THEN Len(html.h3) ELSE -1

SetRun(rec) == run' = rec
\* the call ends; the fields of the call stay readable at pc "idle"
EndRun(result, value, stage) ==
    [run EXCEPT !.pc = "idle", !.result = result, !.value = value, !.stage = stage,
                !.payload = Absent]

\* crypto_data_service.py:140-142: the except branch prints and returns None;
\* the file a failed fetch or extraction leaves is the file it found
svc_after_failure(stored) == stored

\* crypto_data_service.py:143-144: does `finally' close the browser on this exit?
svc_quits(stage) == TRUE
SvcDriverAfter(stage) == IF svc_quits(stage) THEN "closed" ELSE "open"

\* crypto_data_service.py:98-109  fetch_and_save_coindesk_news: webdriver.Chrome(...)
svc_fetch_start ==
    /\ prog = "svc" /\ run.pc = "idle"
    /\ \/ /\ SetRun([IdleRun EXCEPT !.op = "fetch_news", !.pc = "s_get",
                                    !.before = disk[NEWS_FILE]])
          /\ driver' = "open"
       \/ /\ SetRun([IdleRun EXCEPT !.op = "fetch_news", !.result = "raised",
                                    !.stage = "driver_failed",
                                    !.before = disk[NEWS_FILE]])
          /\ driver' = "none"
    /\ UNCHANGED <<prog, call, now, disk, apiVars, memo, botVars>>

\* crypto_data_service.py:112  driver.get(url)
svc_driver_get ==
    /\ prog = "svc" /\ run.pc = "s_get"
    /\ \/ /\ SetRun([run EXCEPT !.pc = "s_wait"])
          /\ UNCHANGED <<driver, disk>>
       \/ /\ SetRun(EndRun("none", Absent, "fetch_failed"))        \* lines 140-144
          /\ driver' = SvcDriverAfter("fetch_failed")
          /\ WriteFile(NEWS_FILE, svc_after_failure(disk[NEWS_FILE]))
    /\ UNCHANGED <<prog, call, now, apiVars, memo, botVars>>

\* crypto_data_service.py:113-136  the readiness wait, the parse, the extraction
\* and joblib.dump opening (truncating) the target
svc_wait_extract ==
    /\ prog = "svc" /\ run.pc = "s_wait"
    /\ \E html \in Pages :
         IF ~H3Present(html)                                       \* TimeoutException
         THEN /\ SetRun([EndRun("none", Absent, "wait_timeout") EXCEPT
                            !.headlines = H3Count(html)])
              /\ driver' = SvcDriverAfter("wait_timeout")
              /\ WriteFile(NEWS_FILE, svc_after_failure(disk[NEWS_FILE]))
         ELSE IF ~Parses(html)
         THEN /\ SetRun(EndRun("none", Absent, "extract_failed"))
              /\ driver' = SvcDriverAfter("extract_failed")
              /\ WriteFile(NEWS_FILE, svc_after_failure(disk[NEWS_FILE]))
         ELSE \/ /\ SetRun([run EXCEPT !.pc = "s_write", !.headlines = H3Count(html),
                                       !.payload = svc_payload(html, SVC_LIMIT, now)])
                 /\ WriteFile(NEWS_FILE, Partial)
                 /\ UNCHANGED driver
              \/ /\ SetRun([EndRun("none", Absent, "save_failed") EXCEPT
                               !.headlines = H3Count(html)])       \* open raised
                 /\ driver' = SvcDriverAfter("save_failed")
                 /\ UNCHANGED disk
    /\ UNCHANGED <<prog, call, now, apiVars, memo, botVars>>

\* crypto_data_service.py:136-144  joblib.dump writes and closes; return data
svc_dump_write ==
    /\ prog = "svc" /\ run.pc = "s_write"
    /\ \/ /\ WriteFile(NEWS_FILE, run.payload)
          /\ SetRun(EndRun("value", run.payload, "saved"))
          /\ driver' = SvcDriverAfter("saved")
       \/ /\ UNCHANGED disk                                        \* write raised
          /\ SetRun(EndRun("none", Absent, "save_failed"))
          /\ driver' = SvcDriverAfter("save_failed")
    /\ UNCHANGED <<prog, call, now, apiVars, memo, botVars>>

\* crypto_data_service.py:150-156  load_saved_data's outcome for a stored file:
\* joblib.load is outside any try
load_saved_data(stored) ==
    CASE stored = Absent -> "none"
      [] stored = Partial -> "raised"
      [] OTHER -> "value"

\* crypto_data_service.py:150-156  load_saved_data(filename)
svc_load(f) ==
    /\ prog = "svc" /\ run.pc = "idle"
    /\ SetRun([IdleRun EXCEPT !.op = "load", !.before = disk[f],
                              !.seen = Seen(disk[f], now),
                              !.result = load_saved_data(disk[f]),
                              !.value = IF load_saved_data(disk[f]) = "value"
                                        THEN disk[f] ELSE Absent])
    /\ driver' = "none"
    /\ UNCHANGED <<prog, call, now, disk, apiVars, memo, botVars>>

SvcNext ==
    \/ svc_fetch_start \/ svc_driver_get \/ svc_wait_extract \/ svc_dump_write
    \/ \E f \in FileKeys : svc_load(f)

----------------------------------------------------------------------------
(* streamlit_app.py *)

DASH_LIMIT == 20
DASH_BASE == "https://www.coindesk.com"

\* streamlit_app.py:52
dash_full_link(href) == IF StartsWith(href, "http") THEN href ELSE DASH_BASE \o href

\* streamlit_app.py:46-53: only the headlines with an href make an article
dash_articles(html, limit) ==
    LET hs == Take(html.h3, limit)
        RECURSIVE Build(_)
        Build(i) ==
            IF i > Len(hs) THEN <<>>
            ELSE IF HrefOf(hs[i]) # ""
            THEN <<[title |-> Strip(hs[i].text), link |-> dash_full_link(HrefOf(hs[i]))]>>
                     \o Build(i + 1)
            ELSE Build(i + 1)
    IN  Build(1)

\* streamlit_app.py:55: the list that is dumped; saved_at is the file's
\* modification time (the list itself carries no timestamp)
dash_payload(html, limit, ts) ==
    [kind |-> "data", saved_at |-> ts, articles |-> dash_articles(html, limit)]

\* streamlit_app.py:107-114  load_coindesk_news: [] unless the file loads
load_coindesk_news(stored) == IF stored.kind = "data" THEN stored ELSE Absent

\* streamlit_app.py:116-123  load_top_gainers_losers: None unless the file loads
load_top_gainers_losers(stored) == IF stored.kind = "data" THEN "value" ELSE "none"

\* streamlit_app.py:36-44: is driver.quit() reached on this exit of the fetch?
dash_quits(stage) == stage # "fetch_failed"
DashDriverAfter(stage) == IF dash_quits(stage) THEN "closed" ELSE "open"

\* streamlit_app.py:233-239: does this rerun fetch (or only load the file)?
dash_fetches(pressed, stored, t) == pressed

\* streamlit_app.py:188, 233-239, 28-36  one rerun of the script: the sidebar
\* load, then either load_coindesk_news() or fetch_and_cache_coindesk_news up
\* to webdriver.Chrome(...)
dash_rerun(pressed) ==
    /\ prog = "dash" /\ run.pc = "idle"
    /\ LET r == [IdleRun EXCEPT
                    !.pressed = pressed, !.before = disk[NEWS_FILE],
                    !.seen = Seen(disk[NEWS_FILE], now),
                    !.market = load_top_gainers_losers(disk[GAINERS_FILE])]
       IN  IF dash_fetches(pressed, disk[NEWS_FILE], now)
           THEN \/ /\ SetRun([r EXCEPT !.op = "fetch_news", !.pc = "d_get"])
                   /\ driver' = "open"
                \/ /\ SetRun([r EXCEPT !.op = "fetch_news", !.result = "raised",
                                       !.stage = "driver_failed"])
                   /\ driver' = "none"
           ELSE /\ SetRun([r EXCEPT
                     !.op = "load",
                     !.value = load_coindesk_news(disk[NEWS_FILE]),
                     !.result = IF load_coindesk_news(disk[NEWS_FILE]) = Absent
                                THEN "none" ELSE "value"])
                /\ driver' = "none"
    /\ UNCHANGED <<prog, call, now, disk, apiVars, memo, botVars>>

\* streamlit_app.py:37  driver.get(...), before the try block
dash_driver_get ==
    /\ prog = "dash" /\ run.pc = "d_get"
    /\ \/ /\ SetRun([run EXCEPT !.pc = "d_wait"])
          /\ UNCHANGED driver
       \/ /\ SetRun(EndRun("raised", Absent, "fetch_failed"))
          /\ driver' = DashDriverAfter("fetch_failed")
    /\ UNCHANGED <<prog, call, now, disk, apiVars, memo, botVars>>

\* streamlit_app.py:39-55  the readiness wait and the parse inside try/finally
\* (no except), then the extraction and joblib.dump opening the target
dash_wait_extract ==
    /\ prog = "dash" /\ run.pc = "d_wait"
    /\ \E html \in Pages :
         IF ~H3Present(html)                                       \* TimeoutException
         THEN /\ SetRun([EndRun("raised", Absent, "wait_timeout") EXCEPT
                            !.headlines = H3Count(html)])
              /\ driver' = DashDriverAfter("wait_timeout")
              /\ UNCHANGED disk
         ELSE IF ~Parses(html)
         THEN /\ SetRun(EndRun("raised", Absent, "extract_failed"))
              /\ driver' = DashDriverAfter("extract_failed")
              /\ UNCHANGED disk
         ELSE \/ /\ SetRun([run EXCEPT !.pc = "d_write", !.headlines = H3Count(html),
                                       !.payload = dash_payload(html, DASH_LIMIT, now)])
                 /\ WriteFile(NEWS_FILE, Partial)
                 /\ driver' = DashDriverAfter("extracted")
              \/ /\ SetRun(EndRun("raised", Absent, "save_failed")) \* open raised
                 /\ driver' = DashDriverAfter("save_failed")
                 /\ UNCHANGED disk
    /\ UNCHANGED <<prog, call, now, apiVars, memo, botVars>>

\* streamlit_app.py:55-56  joblib.dump writes and closes; return articles
dash_dump_write ==
    /\ prog = "dash" /\ run.pc = "d_write"
    /\ \/ /\ WriteFile(NEWS_FILE, run.payload)
          /\ SetRun(EndRun(IF Len(run.payload.articles) = 0 THEN "none" ELSE "value",
                           run.payload, "saved"))
       \/ /\ UNCHANGED disk                                        \* write raised
          /\ SetRun(EndRun("raised", Absent, "save_failed"))
    /\ UNCHANGED <<prog, call, now, apiVars, driver, memo, botVars>>

DashNext ==
    \/ \E pressed \in BOOLEAN : dash_rerun(pressed)
    \/ dash_driver_get \/ dash_wait_extract \/ dash_dump_write

----------------------------------------------------------------------------
(* app.py *)

APP_TTL == 3600
\* app.py:58  articles[:10]
APP_SHOWN == 10

HeadlineC == H3("Ether rally. Funds buy", "/markets/eth")
HeadlineD == H3("Fed panic", "nohref")
\* what the page holds for app.py: the pages above, one with two linked
\* headlines and one with an anchor that has no href
AppPages == Pages \cup {Html(<<HeadlineA, HeadlineC>>), Html(<<HeadlineA, HeadlineD>>)}

\* app.py:33-40: an element with a headline and an anchor makes an article;
\* link_tag["href"] raises KeyError on an anchor without href
app_raises(html) == \E i \in 1..Len(html.h3) : html.h3[i].anchor = "nohref"

app_articles(html) ==
    LET RECURSIVE Build(_)
        Build(i) ==
            IF i > Len(html.h3) THEN <<>>
            ELSE IF html.h3[i].anchor # "none"
            THEN <<[title |-> Strip(html.h3[i].text), link |-> html.h3[i].anchor]>>
                     \o Build(i + 1)
            ELSE Build(i + 1)
    IN  Build(1)

\* app.py:18-31: is driver.quit() reached on this exit of scrape_news?
app_quits(stage) == stage \notin {"fetch_failed", "parse_failed"}
AppDriverAfter(stage) == IF app_quits(stage) THEN "closed" ELSE "open"

\* app.py:17  st.cache_data(ttl=3600): the entry still serves
MemoFresh == memo.kind = "data" /\ now - memo.cached_at < APP_TTL

\* app.py:49-53  a rerun: Refresh clears the memo; a fresh memo is served
\* without scraping, otherwise scrape_news starts with webdriver.Chrome(...)
app_rerun(refresh) ==
    /\ prog = "app" /\ run.pc = "idle"
    /\ IF ~refresh /\ MemoFresh
       THEN /\ SetRun([IdleRun EXCEPT !.op = "memo", !.value = memo,
                          !.pc = IF Len(memo.articles) = 0 THEN "idle" ELSE "a_render",
                          !.result = IF Len(memo.articles) = 0 THEN "none" ELSE "value"])
            /\ driver' = "none"
            /\ UNCHANGED memo
       ELSE /\ memo' = Absent
            /\ \/ /\ SetRun([IdleRun EXCEPT !.op = "scrape", !.pc = "a_get"])
                  /\ driver' = "open"
               \/ /\ SetRun([IdleRun EXCEPT !.op = "scrape", !.result = "raised",
                                            !.stage = "driver_failed"])
                  /\ driver' = "none"
    /\ UNCHANGED <<prog, call, now, disk, apiVars, botVars>>

\* app.py:27-28  driver.get(url) and the 5 s sleep, outside any try
app_driver_get ==
    /\ prog = "app" /\ run.pc = "a_get"
    /\ \/ /\ SetRun([run EXCEPT !.pc = "a_parse"])
          /\ UNCHANGED driver
       \/ /\ SetRun(EndRun("raised", Absent, "fetch_failed"))
          /\ driver' = AppDriverAfter("fetch_failed")
    /\ UNCHANGED <<prog, call, now, disk, apiVars, memo, botVars>>

\* app.py:30-42  the parse, driver.quit(), the extraction; the result is memoised
app_parse_extract ==
    /\ prog = "app" /\ run.pc = "a_parse"
    /\ \E html \in AppPages :
         IF ~Parses(html)
         THEN /\ SetRun(EndRun("raised", Absent, "parse_failed"))
              /\ driver' = AppDriverAfter("parse_failed")
              /\ UNCHANGED memo
         ELSE IF app_raises(html)
         THEN /\ SetRun(EndRun("raised", Absent, "extract_failed"))
              /\ driver' = AppDriverAfter("extract_failed")
              /\ UNCHANGED memo
         ELSE /\ memo' = [kind |-> "data", cached_at |-> now, articles |-> app_articles(html)]
              /\ SetRun([EndRun(IF Len(app_articles(html)) = 0 THEN "none" ELSE "value",
                                memo', "scraped")
                            EXCEPT !.pc = IF Len(app_articles(html)) = 0
                                          THEN "idle" ELSE "a_render"])
              /\ driver' = AppDriverAfter("scraped")
    /\ UNCHANGED <<prog, call, now, disk, apiVars, botVars>>

\* app.py:59-65  what one pass of the loop puts on the page: the title, the
\* link and either the summary or the warning of the except branch
app_shown(article, summarized) ==
    [title |-> article.title, link |-> article.link,
     summary |-> IF summarized THEN "summary" ELSE "warning"]

\* a loop without the try: the summarizer's exception ends the script run
app_loop_stops_on_failure(summarized) == summarized

\* app.py:63-67: the summarizer call is inside try/except Exception, so the
\* loop goes on to the next article whether or not the summarizer raised
app_loop_continues(summarized) == TRUE

\* app.py:58-69  one pass of the loop over articles[:10]: the summarizer
\* returns a summary or raises
app_render ==
    /\ prog = "app" /\ run.pc = "a_render"
    /\ LET arts == Take(run.value.articles, APP_SHOWN)
           i == Len(run.shown) + 1
       IN  \E summarized \in BOOLEAN :
             IF app_loop_continues(summarized)
             THEN SetRun([run EXCEPT
                     !.shown = Append(run.shown, app_shown(arts[i], summarized)),
                     !.pc = IF i = Len(arts) THEN "idle" ELSE "a_render"])
             ELSE SetRun([run EXCEPT !.pc = "idle", !.result = "raised"])
    /\ UNCHANGED <<prog, call, now, disk, apiVars, driver, memo, botVars>>

AppNext ==
    \/ \E refresh \in BOOLEAN : app_rerun(refresh)
    \/ app_driver_get \/ app_parse_extract \/ app_render

----------------------------------------------------------------------------
(* telegram_bot.py *)

MAX_RETRIES == 3

\* what the backend can answer to one GET: a JSON body (json() of an empty
\* object is falsy), a 5xx or 4xx status, a timeout, or any other exception
Json(truthy, ts) == [kind |-> "json", truthy |-> truthy, stamp |-> ts]
HttpOutcomes == {"ok", "ok_empty", "5xx", "4xx", "timeout", "error"}

\* Python truthiness of fetched data (None and {} are falsy)
Truthy(data) == data.kind = "json" /\ data.truthy

\* the comparison of SimpleCache.get turned around
cache_fresh_inverted(age, ttl) == age > ttl

\* telegram_bot.py:38: the entry is still served
cache_fresh(age, ttl) == age < ttl

\* telegram_bot.py:35-42  SimpleCache.get: the value returned ...
cache_get(c, key, t) ==
    IF c[key].kind = "entry" /\ cache_fresh(t - c[key].timestamp, TTL_SECONDS)
    THEN c[key].data ELSE NoData

\* ... and the cache it leaves: an expired entry is deleted
cache_after_get(c, key, t) ==
    IF c[key].kind = "entry" /\ ~cache_fresh(t - c[key].timestamp, TTL_SECONDS)
    THEN [c EXCEPT ![key] = NoEntry] ELSE c

\* telegram_bot.py:44-45  SimpleCache.set
cache_set(c, key, value, t) ==
    [c EXCEPT ![key] = [kind |-> "entry", data |-> value, timestamp |-> t]]

\* a clear that forgets a key
cache_clear_news_only(c) == [c EXCEPT !["news"] = NoEntry]

\* telegram_bot.py:47-48  SimpleCache.clear
cache_clear(c) == [k \in BotKeys |-> NoEntry]

\* the entry of `key' exists and is younger than the TTL at time t
EntryYounger(c, key, t) == c[key].kind = "entry" /\ t - c[key].timestamp < TTL_SECONDS

\* the age at time t of the entry of `key' (-1: no entry)
EntryAge(c, key, t) == IF c[key].kind = "entry" THEN t - c[key].timestamp ELSE -1

\* the cache key a command reads: telegram_bot.py:112, 162, 203
KeyOf(name) == IF name = "news" THEN "news" ELSE "gainers"

\* telegram_bot.py:113, 163, 204  `if cached_data:' -- served without a fetch?
serves_cached(cached) == Truthy(cached)

\* telegram_bot.py:109-118, 159-168, 200-209  /news, /gainers, /losers up to the
\* first request of fetch_with_retry
bot_command(name) ==
    /\ prog = "bot" /\ cmd.pc = "idle"
    /\ LET key == KeyOf(name)
           cached == cache_get(cache, key, now)
       IN  /\ cache' = cache_after_get(cache, key, now)
           /\ IF serves_cached(cached)
              THEN /\ cmd' = [IdleCmd EXCEPT !.name = name, !.reply = "cached",
                                             !.fresh = EntryYounger(cache, key, now),
                                             !.age = EntryAge(cache, key, now),
                                             !.prev = cmd.name]
                   /\ task' = [i \in TaskIds |-> OffTask]
              ELSE /\ cmd' = [IdleCmd EXCEPT !.name = name, !.pc = "fetch",
                                             !.fresh = EntryYounger(cache, key, now),
                                             !.age = EntryAge(cache, key, now),
                                             !.prev = cmd.name]
                   /\ task' = [i \in TaskIds |->
                                 IF i = 1 THEN [OffTask EXCEPT !.key = key, !.pc = "fetch"]
                                 ELSE OffTask]
    /\ UNCHANGED <<prog, call, now, disk, apiVars, scriptVars>>

\* telegram_bot.py:65-86  fetch_with_retry after the answer to request number
\* attempt+1: "retry" (sleep, next attempt) or "return"
\* a retry loop that also retries after a 4xx status or any other exception
retry_decision_on_any_failure(outcome, attempt) ==
    IF outcome \notin {"ok", "ok_empty"} /\ attempt < MAX_RETRIES - 1
    THEN "retry" ELSE "return"

retry_decision(outcome, attempt) ==
    IF outcome \in {"5xx", "timeout"} /\ attempt < MAX_RETRIES - 1
    THEN "retry" ELSE "return"

\* the value fetch_with_retry returns when it returns on this outcome
fetched_value(outcome, t) ==
    CASE outcome = "ok" -> Json(TRUE, t)
      [] outcome = "ok_empty" -> Json(FALSE, t)
      [] OTHER -> NoData

\* a store that keeps every JSON body, the empty one included
stores_fetched_unless_none(data) == data.kind = "json"

\* telegram_bot.py:120-126, 170-176, 211-217 `if not data: ... return' before
\* cache.set; telegram_bot.py:305, 316 `if data:' -- is the result stored?
stores_fetched(data) == Truthy(data)

\* telegram_bot.py:118-126, 168-176, 209-217  one request of fetch_with_retry is
\* answered; when fetch_with_retry returns, the handler stores and replies
bot_fetch_step ==
    /\ prog = "bot" /\ cmd.pc = "fetch" /\ task[1].pc = "fetch"
    /\ \E outcome \in HttpOutcomes :
         IF retry_decision(outcome, task[1].attempt) = "retry"
         THEN /\ task' = [task EXCEPT ![1] = [@ EXCEPT !.attempt = @ + 1, !.last = outcome]]
              /\ cmd' = [cmd EXCEPT !.requests = @ + 1]
              /\ UNCHANGED cache
         ELSE LET data == fetched_value(outcome, now)
              IN  /\ task' = [task EXCEPT ![1] = [@ EXCEPT !.pc = "done", !.data = data,
                                                               !.last = outcome]]
                  /\ cmd' = [cmd EXCEPT !.pc = "idle", !.requests = @ + 1,
                                        !.reply = IF Truthy(data) THEN "fetched"
                                                  ELSE "unavailable"]
                  /\ cache' = IF stores_fetched(data)
                              THEN cache_set(cache, task[1].key, data, now)
                              ELSE cache
    /\ UNCHANGED <<prog, call, now, disk, apiVars, scriptVars>>

\* telegram_bot.py:298-302, 309-313  fetch_news_data / fetch_gainers_data up to
\* the first request: the task of a key whose entry serves is done at once
MarketTask(c, key, t) ==
    IF Truthy(cache_get(c, key, t))
    THEN [OffTask EXCEPT !.key = key, !.pc = "done", !.data = cache_get(c, key, t)]
    ELSE [OffTask EXCEPT !.key = key, !.pc = "fetch"]

\* telegram_bot.py:241-249  /market: both tasks are created and run to their
\* first await
bot_market ==
    /\ prog = "bot" /\ cmd.pc = "idle"
    /\ cache' = cache_after_get(cache_after_get(cache, "news", now), "gainers", now)
    /\ task' = [i \in TaskIds |->
                  MarketTask(cache, IF i = 1 THEN "news" ELSE "gainers", now)]
    /\ cmd' = [IdleCmd EXCEPT !.name = "market", !.pc = "gather", !.prev = cmd.name]
    /\ UNCHANGED <<prog, call, now, disk, apiVars, scriptVars>>

\* telegram_bot.py:304-307, 315-318  one request of a task's fetch_with_retry is
\* answered; a truthy result is stored before the task returns
bot_market_fetch(i) ==
    /\ prog = "bot" /\ cmd.pc = "gather" /\ task[i].pc = "fetch"
    /\ \E outcome \in HttpOutcomes :
         IF retry_decision(outcome, task[i].attempt) = "retry"
         THEN /\ task' = [task EXCEPT ![i] = [@ EXCEPT !.attempt = @ + 1, !.last = outcome]]
              /\ UNCHANGED cache
         ELSE LET data == fetched_value(outcome, now)
              IN  /\ task' = [task EXCEPT ![i] = [@ EXCEPT !.pc = "done", !.data = data,
                                                               !.last = outcome]]
                  /\ cache' = IF stores_fetched(data)
                              THEN cache_set(cache, task[i].key, data, now)
                              ELSE cache
    /\ cmd' = [cmd EXCEPT !.requests = @ + 1]
    /\ UNCHANGED <<prog, call, now, disk, apiVars, scriptVars>>

\* telegram_bot.py:249-296  asyncio.gather returns and /market replies
bot_market_reply ==
    /\ prog = "bot" /\ cmd.pc = "gather"
    /\ \A i \in TaskIds : task[i].pc = "done"
    /\ cmd' = [cmd EXCEPT !.pc = "idle",
                          !.reply = IF \E i \in TaskIds : Truthy(task[i].data)
                                    THEN "fetched" ELSE "unavailable"]
    /\ UNCHANGED <<prog, call, now, disk, apiVars, scriptVars, cache, task>>

\* telegram_bot.py:320-323  /clear_cache
clear_cache_command ==
    /\ prog = "bot" /\ cmd.pc = "idle"
    /\ cache' = cache_clear(cache)
    /\ cmd' = [IdleCmd EXCEPT !.name = "clear_cache", !.reply = "cleared",
                               !.prev = cmd.name]
    /\ task' = [i \in TaskIds |-> OffTask]
    /\ UNCHANGED <<prog, call, now, disk, apiVars, scriptVars>>

BotNext ==
    \/ \E name \in {"news", "gainers", "losers"} : bot_command(name)
    \/ bot_fetch_step
    \/ bot_market
    \/ \E i \in TaskIds : bot_market_fetch(i)
    \/ bot_market_reply
    \/ clear_cache_command

----------------------------------------------------------------------------
(* The initial state and the clock *)

StoredPage == Html(<<HeadlineA, HeadlineB>>)

\* A file left in the storage directory by an earlier run of the entry point
Stored(p, f) ==
    IF f = GAINERS_FILE THEN gainers_payload(CHOOSE b \in MarketBodies : TRUE, 0)
    ELSE IF p = "dash" THEN dash_payload(StoredPage, DASH_LIMIT, 0)
    ELSE svc_payload(StoredPage, SVC_LIMIT, 0)

\* no pure function is under test
NoCall == [fn |-> "none", text |-> "", max_sentences |-> 0, page |-> NoPage,
           limit |-> 0, done |-> FALSE, out |-> <<>>]

\* The storage directory survives restarts: a file may be missing, cut short by
\* a run that died inside joblib.dump, or whole.  main.py rewrites both files
\* in its startup hook before it serves.
Init ==
    /\ prog \in Progs
    /\ now = 0
    /\ disk \in [FileKeys -> {Absent, Partial}]
            \cup (IF prog = "api" THEN {} ELSE {[f \in FileKeys |-> Stored(prog, f)]})
    /\ thr = [t \in Threads |-> IF prog = "api" /\ t = 1 THEN StartupThread ELSE IdleThread]
    /\ started = FALSE
    /\ run = IdleRun
    /\ driver = "none"
    /\ memo = Absent
    /\ cache = [k \in BotKeys |-> NoEntry]
    /\ cmd = IdleCmd
    /\ task = [i \in TaskIds |-> OffTask]
    /\ call = NoCall

Tick ==
    /\ \E d \in TickSteps : now + d <= MaxTime /\ now' = now + d
    /\ UNCHANGED <<prog, call, disk, apiVars, scriptVars, botVars>>

Next == Tick \/ ApiNext \/ SvcNext \/ DashNext \/ AppNext \/ BotNext

Spec == Init /\ [][Next]_vars

\* The entry points that run as a single process (all but the FastAPI service)
LocalInit == Init /\ prog # "api"

LocalNext == Tick \/ SvcNext \/ DashNext \/ AppNext \/ BotNext

LocalSpec == LocalInit /\ [][LocalNext]_vars

----------------------------------------------------------------------------
(* The pure functions, each applied once to arguments drawn at the start *)

\* headlines as h.text.strip() hands them to the classifiers
Headlines ==
    {"", "Bitcoin surge", "Market crash", "SURGE then CRASH", "Enterprise buyers sell",
     "Bullish traders fear dip", "ETF flows flat", "Pump and dump", "Record high",
     "Downfall", "Bulls and bears"}

\* texts for summarize_text: none, one, two and more sentences, repeated words
\* in either case, several spaces between sentences, spaces at either end
Texts ==
    {"", "Bitcoin surge", "Up. Down.", "Up. Bitcoin bitcoin rally. Bitcoin up.",
     "A b. C d! E f? G", "BTC up. btc Up. Eth.", " Lead. Two. Three.",
     "End. Mid mid. Tail  ", "One.  Two. ", "x. y y. z. x y"}

HeadlineAbs == H3("Absolute", "https://x.io/a")
HeadlineEmpty == H3("  ", "none")
\* pages for the extraction: headlines with and without a link, with an anchor
\* that has no href, with an absolute link, with a blank title
ExtractPages ==
    {Html(<<>>), Html(<<HeadlineA, HeadlineB>>), Html(<<HeadlineA, HeadlineC, HeadlineD>>),
     Html(<<HeadlineB, HeadlineA, HeadlineC, HeadlineAbs>>), Html(<<HeadlineEmpty, HeadlineA>>),
     Html(<<HeadlineAbs, HeadlineC, HeadlineA, HeadlineB, HeadlineD>>)}

Extractors == {"main.py", "crypto_data_service.py", "streamlit_app.py"}

FnCalls ==
    {[NoCall EXCEPT !.fn = "classify_sentiment", !.text = x] : x \in Headlines}
    \cup {[NoCall EXCEPT !.fn = "summarize_text", !.text = x, !.max_sentences = k] :
             x \in Texts, k \in 0..MaxSentences}
    \cup {[NoCall EXCEPT !.fn = e, !.page = pg, !.limit = l] :
             e \in Extractors, pg \in ExtractPages, l \in 0..MaxLimit}

FnInit ==
    /\ prog = "fn"
    /\ now = 0
    /\ disk = [f \in FileKeys |-> Absent]
    /\ thr = [t \in Threads |-> IdleThread]
    /\ started = FALSE
    /\ run = IdleRun
    /\ driver = "none"
    /\ memo = Absent
    /\ cache = [k \in BotKeys |-> NoEntry]
    /\ cmd = IdleCmd
    /\ task = [i \in TaskIds |-> OffTask]
    /\ call \in FnCalls

Returns(value) ==
    /\ call' = [call EXCEPT !.done = TRUE, !.out = value]
    /\ UNCHANGED <<prog, now, disk, apiVars, scriptVars, botVars>>

\* main.py:55-66 and crypto_data_service.py:28-41 on the same headline
apply_classify_sentiment ==
    /\ prog = "fn" /\ call.fn = "classify_sentiment" /\ ~call.done
    /\ Returns([main |-> classify_sentiment(call.text),
                svc |-> svc_classify_sentiment(call.text)])

\* main.py:69-79
apply_summarize_text ==
    /\ prog = "fn" /\ call.fn = "summarize_text" /\ ~call.done
    /\ Returns(summarize_text(call.text, call.max_sentences))

\* main.py:115-132, crypto_data_service.py:115-128, streamlit_app.py:46-53:
\* the article list each extraction builds from the parsed page
apply_extract ==
    /\ prog = "fn" /\ call.fn \in Extractors /\ ~call.done
    /\ Returns(CASE call.fn = "main.py" -> main_articles(call.page, call.limit)
                 [] call.fn = "crypto_data_service.py"
                       -> svc_payload(call.page, call.limit, 0).articles
                 [] call.fn = "streamlit_app.py" -> dash_articles(call.page, call.limit))

FnNext == apply_classify_sentiment \/ apply_summarize_text \/ apply_extract

FnSpec == FnInit /\ [][FnNext]_vars

----------------------------------------------------------------------------
(* Claims *)

AcquisitionFailures == {"fetch_failed", "wait_timeout", "extract_failed"}
HasSnapshot(seen) == seen \in {"fresh", "stale"}

\* C1: when a refresh of the news fails at the fetch (the navigation raises or
\* the wait times out) while a snapshot is stored, the read entry point answers
\* with the stored snapshot instead of raising: a dashboard rerun with Refresh
\* pressed whose fetch fails still shows the snapshot it found on disk.
\* (GET /coindesk refreshes only when it finds no file, so it has no such case.)
C1_FailedRefreshServesStored ==
    (prog = "dash" /\ run.op = "fetch_news" /\ run.pc = "idle"
       /\ run.stage \in {"fetch_failed", "wait_timeout"} /\ run.before.kind = "data")
        => (run.result = "value" /\ run.value = run.before)

\* C2 (crypto_data_service.py): after a run of fetch_and_save_coindesk_news
\* that failed at the fetch or the extraction, the news file is exactly the
\* file the run found.
C2_SvcFileAsFound ==
    (prog = "svc" /\ run.op = "fetch_news" /\ run.pc = "idle"
       /\ run.stage \in AcquisitionFailures)
        => disk[NEWS_FILE] = run.before

\* C2 (main.py): the step in which fetch_and_save_coindesk_news fails at the
\* fetch or the extraction (its first and only step) changes no file.
C2_ApiFailingStep ==
    \A t \in Threads :
        (thr[t].pc = "n_get" /\ thr'[t].n_outcome \in AcquisitionFailures)
            => disk' = disk

\* C2: whenever the fetch or the extraction stage of
\* fetch_and_save_coindesk_news fails, the refresh aborts without writing: the
\* stored news file is what it was before the refresh started.
C2_FailedRefreshWritesNothing == [](C2_SvcFileAsFound) /\ [][C2_ApiFailingStep]_vars

\* C2 witness: a GET /refresh that found a snapshot has failed at the fetch and
\* the snapshot is still stored.
C2_Witness ==
    \E t \in Threads :
        /\ thr[t].req = "refresh" /\ thr[t].pc = "idle"
        /\ thr[t].n_outcome = "fetch_failed" /\ HasSnapshot(thr[t].seen)
        /\ disk[NEWS_FILE].kind = "data"

\* C3: loading never crashes: with the file missing or corrupt every load path
\* answers "not found", the same for both (404 from the API, None / [] from
\* the scripts).
C3_LoadNeverCrashes ==
    /\ \A t \in Threads :
         /\ (thr[t].req = "gainers_losers" /\ thr[t].seen \in {"absent", "partial"})
               => thr[t].resp = "404"
         /\ (thr[t].req = "coindesk" /\ thr[t].pc = "idle"
               /\ thr[t].body.kind \in {"absent", "partial"})
               => thr[t].resp = "404"
    /\ (prog \in {"svc", "dash"} /\ run.op = "load" /\ run.pc = "idle"
          /\ run.before.kind \in {"absent", "partial"})
            => run.result = "none"

\* C4: a read that finds its cached snapshot present and not stale serves it
\* without fetching: a /news, /gainers or /losers command that finds the entry
\* of its key younger than the TTL ends with the cached reply and no request of
\* fetch_with_retry; GET /coindesk with the file in place never enters
\* fetch_and_save_coindesk_news.
C4_FreshReadDoesNotFetch ==
    /\ (prog = "bot" /\ cmd.name \in {"news", "gainers", "losers"} /\ cmd.fresh)
         => (cmd.pc = "idle" /\ cmd.reply = "cached" /\ cmd.requests = 0)
    /\ \A t \in Threads :
         (thr[t].req = "coindesk" /\ thr[t].seen # "absent") => ~thr[t].n_called

\* C4 witness: /news was served from an entry younger than the TTL.
C4_Witness ==
    /\ prog = "bot" /\ cmd.name = "news" /\ cmd.fresh /\ cmd.reply = "cached"
    /\ cache["news"].kind = "entry"

\* C5: a read serves the stored snapshot only if it is present and not stale;
\* when the snapshot is absent or older than the TTL the read refreshes first.
\* So no GET /coindesk answers from a file it found stale without having
\* entered fetch_and_save_coindesk_news, and no dashboard rerun without Refresh
\* shows a file it found absent or stale.
C5_StaleIsRefreshedFirst ==
    /\ \A t \in Threads :
         (thr[t].req = "coindesk" /\ thr[t].pc = "idle"
            /\ thr[t].seen \in {"absent", "stale"})
            => thr[t].n_called
    /\ (prog = "dash" /\ run.op = "load") => run.seen \notin {"absent", "stale"}

\* C6: a forced refresh always runs the full pipeline: every GET /refresh
\* enters fetch_and_save_gainers_losers and, before it answers,
\* fetch_and_save_coindesk_news, and every dashboard rerun with Refresh pressed
\* enters fetch_and_cache_coindesk_news, however fresh the stored snapshot is.
C6_ForcedRefreshRunsPipeline ==
    /\ \A t \in Threads :
         /\ thr[t].req = "refresh" => thr[t].g_called
         /\ (thr[t].req = "refresh" /\ thr[t].pc = "idle")
               => (thr[t].n_called /\ thr[t].n_outcome # "none")
    /\ (prog = "dash" /\ run.pressed) => run.op = "fetch_news"

\* C6 witness: a GET /refresh that found a fresh snapshot has run both fetches.
C6_Witness ==
    \E t \in Threads :
        /\ thr[t].req = "refresh" /\ thr[t].pc = "idle" /\ thr[t].seen = "fresh"
        /\ thr[t].g_called /\ thr[t].n_called

\* C7: saving is atomic for a reader: a joblib.load of GET /coindesk that runs
\* while another thread is inside joblib.dump of fetch_and_save_coindesk_news
\* gets a complete snapshot, never a partially written file.
C7_SaveIsAtomic ==
    [][\A t \in Threads :
          (thr[t].pc = "load" /\ thr'[t].pc = "idle"
             /\ \E u \in Threads \ {t} : thr[u].pc = "n_write")
            => thr'[t].body.kind = "data"]_vars

\* C8: at most one refresh per cache key is in flight: the fetch-and-save
\* sections of two requests never overlap on the news file, nor on the
\* gainers/losers file.
C8_OneRefreshPerKey ==
    /\ Cardinality({t \in Threads : thr[t].pc \in {"n_get", "n_write"}}) <= 1
    /\ Cardinality({t \in Threads : thr[t].pc \in {"g_get", "g_write"}}) <= 1

\* C9: once the driver has been created, no browser-driven fetch ends with the
\* browser session still open.
C9_DriverAlwaysClosed ==
    (prog \in {"svc", "dash", "app"} /\ run.pc = "idle"
       /\ run.op \in {"fetch_news", "scrape"} /\ run.stage # "driver_failed")
        => driver = "closed"

\* C10: a page without headline elements is a successful zero-article run in
\* both paths: unless the dump itself fails, the refresh that got such a page
\* ends saved, and the browser-driven run returns the stored snapshot, which
\* has an empty article list.
C10_ZeroHeadlinesIsSuccess ==
    /\ \A t \in Threads :
         (thr[t].headlines = 0 /\ thr[t].n_outcome \notin {"none", "save_failed"})
            => thr[t].n_outcome = "saved"
    /\ (prog = "svc" /\ run.op = "fetch_news" /\ run.pc = "idle"
          /\ run.headlines = 0 /\ run.stage # "save_failed")
            => (run.stage = "saved" /\ run.result = "value"
                /\ Len(run.value.articles) = 0 /\ disk[NEWS_FILE] = run.value)

\* C11: a failure of joblib.dump inside fetch_and_save_coindesk_news during a
\* refresh is surfaced to the caller of the refresh: a GET /refresh whose news
\* dump failed does not answer with success, and a startup preload whose news
\* dump failed does not go on to serve as if it had succeeded.
C11_SaveFailureSurfaces ==
    \A t \in Threads :
        /\ (thr[t].req = "refresh" /\ thr[t].pc = "idle"
              /\ thr[t].n_outcome = "save_failed")
              => thr[t].resp # "200"
        /\ (thr[t].req = "startup" /\ thr[t].n_outcome = "save_failed")
              => ~started

Min(a, b) == IF a <= b THEN a ELSE b
SentimentLabels == {BULLISH_LABEL, BEARISH_LABEL, NEUTRAL_LABEL}

\* C12: a failure of the enrichment of one article stays with that article.
\* app.py: when the article loop has ended, every one of the first ten articles
\* is on the page with its own title and link, summarized or not, and the
\* script run did not raise.  main.py: classification and summarization drop
\* nothing: the payload about to be saved has one article per extracted
\* headline, each with one of the three labels and a summary that is a string
\* no longer than the title.
C12_EnrichmentFailureIsolated ==
    /\ (prog = "app" /\ run.op \in {"scrape", "memo"} /\ run.pc = "idle"
          /\ run.value.kind = "data" /\ Len(run.value.articles) > 0)
         => LET arts == Take(run.value.articles, APP_SHOWN)
            IN  /\ run.result = "value"
                /\ Len(run.shown) = Len(arts)
                /\ \A i \in 1..Len(arts) :
                     /\ run.shown[i].title = arts[i].title
                     /\ run.shown[i].link = arts[i].link
    /\ \A t \in Threads :
         thr[t].pc = "n_write"
            => /\ Len(thr[t].payload.articles) = Min(thr[t].headlines, MAIN_LIMIT)
               /\ \A i \in 1..Len(thr[t].payload.articles) :
                    /\ thr[t].payload.articles[i].sentiment \in SentimentLabels
                    /\ Len(thr[t].payload.articles[i].summary)
                          <= Len(thr[t].payload.articles[i].title)

\* C12 witness: the loop ended after the summarizer failed on the first article
\* and summarized the second.
C12_Witness ==
    /\ prog = "app" /\ run.pc = "idle" /\ Len(run.shown) = 2
    /\ run.shown[1].summary = "warning" /\ run.shown[2].summary = "summary"
    /\ run.shown[2].title = "Ether rally. Funds buy"

\* the keywords of a list that occur in the lower-cased text
Occurring(words, headline) ==
    {w \in {words[k] : k \in 1..Len(words)} : Contains(Lower(headline), w)}

\* C13: classify_sentiment is total and its label is fixed by the two keyword
\* counts: with b the number of bullish keywords and r the number of bearish
\* keywords occurring in the lower-cased text, the label is Bullish iff b > r,
\* Bearish iff r > b and Neutral iff b = r; the copy in crypto_data_service.py
\* returns the same label as the one in main.py.
C13_LabelFixedByCounts ==
    (call.fn = "classify_sentiment" /\ call.done)
        => LET b == Cardinality(Occurring(BULLISH, call.text))
               r == Cardinality(Occurring(BEARISH, call.text))
           IN  /\ call.out.main \in SentimentLabels
               /\ (call.out.main = BULLISH_LABEL) <=> (b > r)
               /\ (call.out.main = BEARISH_LABEL) <=> (r > b)
               /\ (call.out.main = NEUTRAL_LABEL) <=> (b = r)
               /\ call.out.svc = call.out.main

\* C13 witness: a headline in upper case with one keyword of each list was
\* classified Neutral by both copies.
C13_Witness ==
    /\ call.fn = "classify_sentiment" /\ call.done /\ call.text = "SURGE then CRASH"
    /\ Cardinality(Occurring(BULLISH, call.text)) = 1
    /\ Cardinality(Occurring(BEARISH, call.text)) = 1
    /\ call.out.main = NEUTRAL_LABEL /\ call.out.svc = NEUTRAL_LABEL

\* C14: a cached value is stale exactly when its age exceeds the TTL: a /news,
\* /gainers or /losers command that finds the entry of its key with an age of at
\* most TTL_SECONDS (the TTL itself included) is served from the cache without
\* a request, and only an entry older than that is refetched.
C14_StaleOnlyBeyondTTL ==
    (prog = "bot" /\ cmd.name \in {"news", "gainers", "losers"} /\ cmd.age >= 0)
        => /\ cmd.age <= TTL_SECONDS => (cmd.reply = "cached" /\ cmd.requests = 0)
           /\ cmd.age > TTL_SECONDS => cmd.reply # "cached"

\* C15: the cache keys have independent lifecycles: an operation that removes
\* or replaces the entry of one key leaves the entry of every other key as it
\* was.  For the bot: every step of a /news, /gainers, /losers or /clear_cache
\* handler and every step of a /market task (get-expiry, set, clear) changes the
\* entry of at most one key; for the API: every step changes at most one file.
\* (The first step of /market is two separate get calls, one per key.)
C15_KeysIndependent ==
    [][/\ (prog = "bot" /\ ~(cmd.pc = "idle" /\ cmd'.pc = "gather"))
            => Cardinality({k \in BotKeys : cache'[k] # cache[k]}) <= 1
       /\ prog = "api"
            => Cardinality({f \in FileKeys : disk'[f] # disk[f]}) <= 1]_vars

\* C16: for a page with n headline elements and a limit L every extraction
\* (main.py, crypto_data_service.py, streamlit_app.py) returns exactly min(n, L)
\* articles, the i-th article being the i-th headline of the page, whatever
\* links the headlines have.
C16_FirstMinInOrder ==
    (call.fn \in Extractors /\ call.done)
        => /\ Len(call.out) = Min(Len(call.page.h3), call.limit)
           /\ \A i \in 1..Len(call.out) :
                i <= Len(call.page.h3) /\ call.out[i].title = Strip(call.page.h3[i].text)

\* C17: a headline within the limit that has a title but no resolvable link (no
\* enclosing anchor, or an anchor without href) is not dropped: the extraction
\* returns an article with its title and the 'No link found' sentinel; and no
\* returned article has both an empty title and the sentinel link.
C17_NoLinkKeepsSentinel ==
    (call.fn \in Extractors /\ call.done)
        => /\ \A i \in 1..Min(Len(call.page.h3), call.limit) :
                (Strip(call.page.h3[i].text) # "" /\ HrefOf(call.page.h3[i]) = "")
                   => \E j \in 1..Len(call.out) :
                        /\ call.out[j].title = Strip(call.page.h3[i].text)
                        /\ call.out[j].link = NO_LINK
           /\ \A j \in 1..Len(call.out) :
                ~(call.out[j].title = "" /\ call.out[j].link = NO_LINK)

\* the score of a sentence: over its words, the number of occurrences of the
\* word in the whole text, letter case ignored
WordHits(sentence, text) ==
    LET sw == FindWords(sentence)
        tw == FindWords(text)
    IN  Cardinality({pq \in (1..Len(sw)) \X (1..Len(tw)) :
                        Lower(sw[pq[1]]) = Lower(tw[pq[2]])})

\* C18: summarize_text returns the text unchanged when it has at most
\* max_sentences sentences; otherwise it returns max_sentences distinct
\* sentences of the text, none of them scoring lower than a sentence left out,
\* joined by single spaces in score-descending order (the joined string with
\* the spaces at its two ends removed).
C18_TopSentencesByScore ==
    (call.fn = "summarize_text" /\ call.done)
        => LET sentences == SplitSentences(call.text)
               n == Len(sentences)
               k == call.max_sentences
               score == [i \in 1..n |-> WordHits(sentences[i], call.text)]
           IN  IF n <= k THEN call.out = call.text
               ELSE \E pick \in [1..k -> 1..n] :
                      /\ \A a, b \in 1..k : a < b =>
                           (pick[a] # pick[b] /\ score[pick[a]] >= score[pick[b]])
                      /\ \A j \in 1..n : (\A a \in 1..k : pick[a] # j) =>
                           \A a \in 1..k : score[j] <= score[pick[a]]
                      /\ call.out = Strip(JoinSpace([a \in 1..k |-> sentences[pick[a]]]))

\* C18 witness: of three sentences the second and third score highest (7 and 5
\* against 2) and are returned in that order.
C18_Witness ==
    /\ call.fn = "summarize_text" /\ call.done /\ call.max_sentences = 2
    /\ call.text = "Up. Bitcoin bitcoin rally. Bitcoin up."
    /\ WordHits("Bitcoin bitcoin rally.", call.text) = 7
    /\ WordHits("Up.", call.text) = 2
    /\ call.out = "Bitcoin bitcoin rally. Bitcoin up."

\* C19: every call of fetch_with_retry ends after at most MAX_RETRIES requests
\* and at the first successful response: a further request is issued only
\* after a 5xx status or a timeout and only while attempts remain; a 4xx
\* status or any other exception returns None at once; a 5xx or timeout
\* returns None only on the last attempt; a successful response returns its
\* JSON body.
C19_RetryBoundedAndSelective ==
    prog = "bot" =>
      \A i \in TaskIds :
        /\ task[i].attempt + 1 <= MAX_RETRIES
        /\ (task[i].pc = "fetch" /\ task[i].attempt > 0)
              => task[i].last \in {"5xx", "timeout"}
        /\ (task[i].pc = "done" /\ task[i].last # "none")
              => /\ task[i].last \in {"ok", "ok_empty"} <=> task[i].data.kind = "json"
                 /\ task[i].last \in {"4xx", "error"} => task[i].data = NoData
                 /\ task[i].last \in {"5xx", "timeout"}
                       => (task[i].data = NoData /\ task[i].attempt = MAX_RETRIES - 1)

\* C19 witness: a call has returned None after MAX_RETRIES requests, the last
\* one timed out.
C19_Witness ==
    /\ prog = "bot"
    /\ \E i \in TaskIds :
         /\ task[i].pc = "done" /\ task[i].attempt = MAX_RETRIES - 1
         /\ task[i].last = "timeout" /\ task[i].data = NoData

\* C20: the first command after a completed /clear_cache serves nothing that
\* was stored before the clear: /news, /gainers and /losers find no entry, do
\* not reply from the cache and have issued at least one request of
\* fetch_with_retry by the time they reply; each of the two tasks of /market
\* goes to fetch_with_retry; and while /clear_cache is the last command the
\* cache is empty.  (The application runs one handler at a time; only the two
\* tasks of /market interleave.)
C20_FetchAfterClear ==
    prog = "bot" =>
      /\ cmd.name = "clear_cache" => \A k \in BotKeys : cache[k] = NoEntry
      /\ (cmd.prev = "clear_cache" /\ cmd.name \in {"news", "gainers", "losers"})
            => /\ cmd.age = -1 /\ ~cmd.fresh /\ cmd.reply # "cached"
               /\ task[1].key = KeyOf(cmd.name)
               /\ cmd.pc = "fetch" => task[1].pc = "fetch"
               /\ cmd.pc = "idle" => (cmd.requests >= 1 /\ task[1].last # "none")
      /\ (cmd.prev = "clear_cache" /\ cmd.name = "market")
            => \A i \in TaskIds : task[i].pc = "fetch" \/ task[i].last # "none"

\* C20 witness: /clear_cache ran and the /losers that followed it fetched its
\* data with at least one request and stored it under the key "gainers".
C20_Witness ==
    /\ prog = "bot" /\ cmd.prev = "clear_cache" /\ cmd.name = "losers"
    /\ cmd.pc = "idle" /\ cmd.reply = "fetched" /\ cmd.requests >= 1
    /\ cache["gainers"].kind = "entry" /\ cache["news"] = NoEntry

\* the fetch_with_retry call of task i has returned None or an empty body
FetchFailed(i) == task[i].pc = "done" /\ task[i].last # "none" /\ ~Truthy(task[i].data)

\* in this step a command starts that reads the cache key `key'
StartsCommandFor(key) ==
    /\ cmd.pc = "idle" /\ cmd' # cmd
    /\ \/ cmd'.name = "market"
       \/ cmd'.name \in {"news", "gainers", "losers"} /\ KeyOf(cmd'.name) = key

\* every entry holds a non-empty JSON body, the one a fetch_with_retry call
\* returned at the moment the entry was stored; the key of a failed fetch has
\* no entry
OnlyFetchedPayloads ==
    /\ \A k \in BotKeys :
         cache[k].kind = "entry"
            => /\ cache[k].data.kind = "json" /\ cache[k].data.truthy
               /\ cache[k].data.stamp = cache[k].timestamp
    /\ \A i \in TaskIds : FetchFailed(i) => cache[task[i].key] = NoEntry

\* the step in which a fetch_with_retry call returns a falsy result leaves the
\* cache as it was
FailedFetchKeepsCache ==
    \A i \in TaskIds :
      (task[i].pc = "fetch" /\ FetchFailed(i)') => cache' = cache

\* the command that follows a failed fetch and reads its key goes to
\* fetch_with_retry for that key
FetchesAgain ==
    \A i \in TaskIds :
      (FetchFailed(i) /\ StartsCommandFor(task[i].key))
         => \E j \in TaskIds : task'[j].key = task[i].key /\ task'[j].pc = "fetch"

\* C21: the bot never caches a failed fetch: in every reachable state each
\* SimpleCache entry holds a non-empty payload that a fetch_with_retry call
\* returned; the step in which fetch_with_retry returns None (or an empty
\* body) leaves the cache unchanged and the key without an entry; and the next
\* command that reads that key issues the fetch again.  (The application runs
\* one handler at a time; only the two tasks of /market interleave.)
C21_NeverCachesFailedFetch ==
    /\ [](prog = "bot" => OnlyFetchedPayloads)
    /\ [][prog = "bot" => (FailedFetchKeepsCache /\ FetchesAgain)]_vars

\* C21 witness: /news was answered "unavailable" after its fetch_with_retry
\* call gave up on a timeout at the last attempt; the key "news" has no entry
\* and the entry of "gainers" stored by an earlier command is still there.
C21_Witness ==
    /\ prog = "bot" /\ cmd.name = "news" /\ cmd.pc = "idle"
    /\ cmd.reply = "unavailable" /\ cmd.requests = MAX_RETRIES
    /\ FetchFailed(1) /\ task[1].key = "news" /\ task[1].last = "timeout"
    /\ cache["news"] = NoEntry /\ cache["gainers"].kind = "entry"

====
